---- MODULE Spec2Model ----
(***************************************************************************)
(* A model of the WebSocket connection of rust-ws (src/src/connection.rs,  *)
(* src/src/frame.rs, src/src/stream_splitter.rs).                          *)
(*                                                                         *)
(* Threads: the owner of the WebSocketConnection (send, close, on_message),*)
(* the holder of the MessageHandler (stop), the background reader task     *)
(* spawned by on_message, and the peer at the other end of the transport.  *)
(***************************************************************************)
EXTENDS Integers, Sequences, FiniteSets, TLC

\* ------------------------------------------------------------------ bounds
\* Number of frames the peer sends on the connection.
MaxFrames == 4
\* Number of calls of WebSocketConnection::send by the owner.
MaxSends == 1

VARIABLES
    state,           \* WebSocketConnection.state: the value inside the RwLock
    readGuards,      \* threads that hold a read guard of the state RwLock
    inbound,         \* frames the peer has written that the reader has not read
    sent,            \* number of frames the peer has written
    peerEof,         \* the peer has shut down its sending side
    wire,            \* frames this endpoint has written to the transport, in order
    writerShut,      \* TcpWriterHalf::shutdown(Write) has been done on the socket
    fragmented_seq,  \* FrameIter.fragmented_seq
    received,        \* history: the frames Frame::read has returned to the reader
    rpc,             \* position of the background reader task
    timeouts,        \* history: parity of the timeouts of the read in progress
    cur,             \* the frame try_read_one returned (the frame in hand)
    hstate,          \* the local `state` of SpecialFrameHandler::handle
    yielded,         \* history: messages the message iterator has yielded
    delivered,       \* history: messages the callback f has been invoked with
    stopTokens,      \* unit tokens in the stop channel
    stop,            \* outcome of MessageHandler::stop: "none", "ok", "panic"
    afterStop,       \* history: callback invocations that began after stop()
    opc,             \* position of the owner thread in send / close
    sends,           \* number of send calls the owner has made
    res              \* history: the owner's last call: op, result r, the state it
                     \* read (pre), whether the reader's handling of a Close had
                     \* ended when it was called (late), frames it wrote (wrote)

\* The byte level of one direction of the transport: Frame::to_bytes on the
\* sending side, Frame::read behind FrameIter::next on the receiving side.
VARIABLES
    input,           \* the frames the sending side is to send, in order
    encoded,         \* the frames the sending side has encoded, in order
    pending,         \* bytes written by the sender that have not arrived yet
    sock,            \* bytes that have arrived and Frame::read has not taken
    srcEof,          \* the byte source ends after the bytes written (a slice)
    rd,              \* the locals of the Frame::read call in progress
    out,             \* history: the frames Frame::read has returned
    iterNone         \* FrameIter::next has returned None

connVars == << state, readGuards, inbound, sent, peerEof, wire, writerShut,
               fragmented_seq, received, rpc, timeouts, cur, hstate, yielded,
               delivered, stopTokens, stop, afterStop, opc, sends, res >>

\* The writer half and the reader half of the split TcpStream, and the threads
\* that write frames through clones of the writer half.
VARIABLES
    mutexes,         \* for each Mutex that split creates, the thread holding it
    wr,              \* for each writing thread: its position, and buf, the
                     \* bytes its write_all has still to write
    tcp,             \* the bytes written to the socket, in order, each with the
                     \* thread that wrote it and its place in that thread's frame
    rdpc,            \* position of the reader thread in TcpReaderHalf::read
    peerPings        \* Pings of the peer that the reader has still to read

\* The opening handshake: WebSocketClient::connect, ConnectionIter.
VARIABLES
    header,          \* the HTTP header the other side sends
    hpc,             \* position of connect, or of the connection iterator
    hres,            \* the result of connect, or the item the iterator yields
    conn,            \* a WebSocketConnection has been created and returned
    accepted         \* history: the outcome of the last TcpListener::accept

\* A Sender obtained from WebSocketConnection::sender.
VARIABLES
    ssends,          \* number of calls of Sender::send
    sres             \* history: the last Sender::send: its result r, and the
                     \* connection state (pre) and writerShut (shut) at the call

\* An HTTPHeader built with set_leading_line and add, written and parsed.
VARIABLES
    built,           \* the HTTPHeader: its leading_line and its pairs
    hbytes,          \* the bytes to_bytes gave for it, << >> before the call
    parsed           \* what from_bytes made of hbytes, r = "none" before

byteVars == << input, encoded, pending, sock, srcEof, rd, out, iterNone >>

wireVars == << mutexes, wr, tcp, rdpc, peerPings >>

hsVars == << header, hpc, hres, conn, accepted >>

senderVars == << ssends, sres >>

httpVars == << built, hbytes, parsed >>

\* The variables of the other levels of the model.
otherVars == << byteVars, wireVars, hsVars, senderVars, httpVars >>

notByte == << connVars, wireVars, hsVars, senderVars, httpVars >>

notWire == << connVars, byteVars, hsVars, senderVars, httpVars >>

notHs == << connVars, byteVars, wireVars, senderVars, httpVars >>

notHttp == << connVars, byteVars, wireVars, hsVars, senderVars >>

vars == << connVars, otherVars >>

\* ------------------------------------------------------------------ frames
NoFrame == [fin |-> TRUE, opcode |-> "None", mask |-> FALSE, data |-> << >>]

\* impl Default for Frame
DefaultFrame == [fin |-> TRUE, opcode |-> "Binary", mask |-> FALSE, data |-> << >>]

\* Frame::pong(): takes no argument
pong == [DefaultFrame EXCEPT !.opcode = "Pong"]

\* Frame::connection_close()
connection_close == [DefaultFrame EXCEPT !.opcode = "ConnectionClose"]

RECURSIVE Flatten(_)
Flatten(frames) ==
    IF frames = << >> THEN << >>
    ELSE Head(frames).data \o Flatten(Tail(frames))

\* Frame::from_fragmented
from_fragmented(frames) ==
    [DefaultFrame EXCEPT !.opcode = frames[1].opcode,
                         !.fin = TRUE,
                         !.data = Flatten(frames)]

\* The bytes of the model are below 128, where String::from_utf8 succeeds.
ValidUtf8(data) == \A i \in 1..Len(data) : data[i] < 128

\* impl From<Message> for Frame
FrameFromMessage(m) ==
    [DefaultFrame EXCEPT !.opcode = m.type, !.mask = FALSE, !.data = m.data]

\* impl TryFrom<Frame> for Message: TRUE iff the conversion is Ok
IsMessage(f) ==
    \/ f.opcode = "Binary"
    \/ f.opcode = "Text" /\ ValidUtf8(f.data)

MessageFromFrame(f) == [type |-> f.opcode, data |-> f.data]

\* ------------------------------------------------------------------ peer
\* The frames the peer chooses from; the k-th frame it sends carries <<k>>.
PeerKinds ==
    { [fin |-> FALSE, opcode |-> "Text"],
      [fin |-> TRUE,  opcode |-> "Text"],
      [fin |-> FALSE, opcode |-> "Continuation"],
      [fin |-> TRUE,  opcode |-> "Continuation"],
      [fin |-> TRUE,  opcode |-> "Ping"],
      [fin |-> TRUE,  opcode |-> "Pong"],
      [fin |-> TRUE,  opcode |-> "ConnectionClose"] }

\* The frames the peer has written, in order.
PeerSent == received \o inbound

\* The peer is inside a fragmented message: its last data frame was not final.
RECURSIVE PeerMid(_)
PeerMid(frames) ==
    IF frames = << >> THEN FALSE
    ELSE LET l == frames[Len(frames)]
         IN IF l.opcode \in {"Text", "Binary", "Continuation"}
            THEN ~l.fin
            ELSE PeerMid(SubSeq(frames, 1, Len(frames) - 1))

\* The peer has written its Close frame.
PeerClosed(frames) ==
    \E i \in 1..Len(frames) : frames[i].opcode = "ConnectionClose"

\* The peer frames its messages as RFC 6455 asks: a Continuation frame only
\* inside a fragmented message, a new data frame only outside one, control
\* frames anywhere, nothing after its Close. TCP delivers the frames in the
\* order sent and the reader takes them one at a time, so the next frame is put
\* in flight once the one before it has been read: an earlier send changes
\* nothing the connection can observe.
PeerSend(k) ==
    /\ sent < MaxFrames
    /\ ~peerEof
    /\ inbound = << >>
    /\ ~PeerClosed(PeerSent)
    /\ k.opcode = "Continuation" => PeerMid(PeerSent)
    /\ k.opcode = "Text" => ~PeerMid(PeerSent)
    /\ inbound' = Append(inbound,
                    [fin |-> k.fin, opcode |-> k.opcode, mask |-> FALSE,
                     data |-> << sent + 1 >>])
    /\ sent' = sent + 1
    /\ UNCHANGED << timeouts, state, readGuards, peerEof, wire, writerShut,
                    fragmented_seq, received, rpc, cur, hstate, yielded,
                    delivered, stopTokens, stop, afterStop, opc, sends, res,
                    otherVars >>

PeerShutdown ==
    /\ ~peerEof
    /\ peerEof' = TRUE
    /\ UNCHANGED << timeouts, state, readGuards, inbound, sent, wire, writerShut,
                    fragmented_seq, received, rpc, cur, hstate, yielded, delivered,
                    stopTokens, stop, afterStop, opc, sends, res,
                    otherVars >>

\* ------------------------------------------------------------------ bytes
\* The opcodes of enum OpCode; NonControl(code) and Control(code) for the codes
\* to_bytes accepts (assert!(code <= 4)).
NonControl(code) ==
    << "NonControl0", "NonControl1", "NonControl2", "NonControl3",
       "NonControl4" >>[code + 1]

Control(code) ==
    << "Control0", "Control1", "Control2", "Control3", "Control4" >>[code + 1]

OpCode ==
    {"Continuation", "Text", "Binary", "ConnectionClose", "Ping", "Pong"}
        \cup {NonControl(c) : c \in 0..4} \cup {Control(c) : c \in 0..4}

\* The width in bytes of usize::to_be_bytes on a 64-bit target.
UsizeBytes == 8

Bit(b) == IF b THEN 1 ELSE 0

\* Bitwise exclusive or of two bytes.
RECURSIVE Xor(_, _)
Xor(a, b) ==
    IF a = 0 THEN b
    ELSE IF b = 0 THEN a
    ELSE 2 * Xor(a \div 2, b \div 2) + ((a + b) % 2)

\* n.to_be_bytes() for an integer type of w bytes
RECURSIVE to_be_bytes(_, _)
to_be_bytes(n, w) ==
    IF w = 0 THEN << >> ELSE Append(to_be_bytes(n \div 256, w - 1), n % 256)

\* u16::from_be_bytes, u64::from_be_bytes
RECURSIVE from_be_bytes(_)
from_be_bytes(buf) ==
    IF buf = << >> THEN 0
    ELSE from_be_bytes(SubSeq(buf, 1, Len(buf) - 1)) * 256 + buf[Len(buf)]

\* Frame::decode_or_encode_masked_data
decode_or_encode_masked_data(masking_key, data) ==
    [index \in 1..Len(data) |->
        Xor(data[index], masking_key[((index - 1) % 4) + 1])]

\* Frame::to_bytes, the match on self.opcode
opcode_bits(opcode) ==
    CASE opcode = "Continuation" -> 0
      [] opcode = "Text" -> 1
      [] opcode = "Binary" -> 2
      [] opcode = "ConnectionClose" -> 8
      [] opcode = "Ping" -> 9
      [] opcode = "Pong" -> 10
      [] \E code \in 0..4 : opcode = NonControl(code) ->
            3 + (CHOOSE code \in 0..4 : opcode = NonControl(code))
      [] \E code \in 0..4 : opcode = Control(code) ->
            11 + (CHOOSE code \in 0..4 : opcode = Control(code))

\* Frame::to_bytes, the low seven bits of the second byte. `total_len as u16`
\* truncates to 16 bits, so the comparison with u16::MAX holds of every length.
len_field(total_len) ==
    IF total_len <= 125 THEN total_len
    ELSE IF (total_len % 65536) <= 65535 THEN 126
    ELSE 127

\* Frame::to_bytes, the bytes written between the second byte and the masking
\* key: total_len is a usize, and all of its bytes are written.
extended_len(total_len) ==
    IF total_len > 125 THEN to_be_bytes(total_len, UsizeBytes) ELSE << >>

\* Frame::to_bytes. A frame of this level is a record with the fields of struct
\* Frame (extension_data, which to_bytes does not write, left out); masking_key
\* is << >> for None.
to_bytes(f) ==
    LET total_len == Len(f.application_data)
        b0 == Bit(f.fin) * 128 + Bit(f.rsv1) * 64 + Bit(f.rsv2) * 32
                  + Bit(f.rsv3) * 16 + opcode_bits(f.opcode)
        b1 == Bit(f.mask) * 128 + len_field(total_len)
    IN << b0, b1 >> \o extended_len(total_len)
           \o (IF f.masking_key # << >>
               THEN f.masking_key
                        \o decode_or_encode_masked_data(f.masking_key,
                                                        f.application_data)
               ELSE f.application_data)

\* Frame::read, the match on the low four bits of the first byte
opcode_of(b) ==
    CASE b = 0 -> "Continuation"
      [] b = 1 -> "Text"
      [] b = 2 -> "Binary"
      [] b = 8 -> "ConnectionClose"
      [] b = 9 -> "Ping"
      [] b = 10 -> "Pong"
      [] b \in 11..15 -> Control(b - 11)
      [] b \in 3..7 -> NonControl(b - 3)

\* The locals of Frame::read when it is called: it is about to take the first
\* two bytes, and buf (the buffer of the read_exact in progress) is empty.
ReadStart ==
    [stage |-> "first_two_bytes", buf |-> << >>, fin |-> FALSE, rsv1 |-> FALSE,
     rsv2 |-> FALSE, rsv3 |-> FALSE, opcode |-> "Continuation", mask |-> FALSE,
     payload_len |-> 0, masking_key |-> << >>]

\* The number of bytes the read_exact of a stage of Frame::read asks for.
Wanted(r) ==
    CASE r.stage = "first_two_bytes" -> 2
      [] r.stage = "len16" -> 2
      [] r.stage = "len64" -> 8
      [] r.stage = "masking_key" -> 4
      [] r.stage = "payload" -> r.payload_len

\* The stage of Frame::read that follows the payload length.
AfterLen(mask) == IF mask THEN "masking_key" ELSE "payload"

\* Frame::read, from the end of one read_exact to the start of the next: r.buf
\* holds the bytes that read_exact has filled in.
Parsed(r) ==
    CASE r.stage = "first_two_bytes" ->
            LET first_byte == r.buf[1]
                mask_and_payload_len == r.buf[2]
                mask == (mask_and_payload_len \div 128) = 1
                x == mask_and_payload_len % 128
            IN [r EXCEPT !.buf = << >>,
                         !.fin = (first_byte \div 128) = 1,
                         !.rsv1 = ((first_byte \div 64) % 2) = 1,
                         !.rsv2 = ((first_byte \div 32) % 2) = 1,
                         !.rsv3 = ((first_byte \div 16) % 2) = 1,
                         !.opcode = opcode_of(first_byte % 16),
                         !.mask = mask,
                         !.payload_len = IF x <= 125 THEN x ELSE 0,
                         !.stage = IF x <= 125 THEN AfterLen(mask)
                                   ELSE IF x = 126 THEN "len16" ELSE "len64"]
      [] r.stage \in {"len16", "len64"} ->
            [r EXCEPT !.buf = << >>,
                      !.payload_len = from_be_bytes(r.buf),
                      !.stage = AfterLen(r.mask)]
      [] r.stage = "masking_key" ->
            [r EXCEPT !.buf = << >>, !.masking_key = r.buf,
                      !.stage = "payload"]

\* Frame::read, the frame it returns once the payload has been read.
FrameRead(r) ==
    [fin |-> r.fin, rsv1 |-> r.rsv1, rsv2 |-> r.rsv2, rsv3 |-> r.rsv3,
     opcode |-> r.opcode, mask |-> r.mask, masking_key |-> r.masking_key,
     application_data |->
         IF r.masking_key # << >>
         THEN decode_or_encode_masked_data(r.masking_key, r.buf)
         ELSE r.buf]

\* The byte level at rest: nothing encoded, nothing in flight, no read begun.
ByteIdle ==
    /\ input = << >>
    /\ encoded = << >>
    /\ pending = << >>
    /\ sock = << >>
    /\ srcEof = FALSE
    /\ rd = ReadStart
    /\ out = << >>
    /\ iterNone = FALSE

\* The message a Sender sends.
SenderMessage == [type |-> "Binary", data |-> << 1 >>]

\* The frame of the connection level, with all the fields of struct Frame.
FrameOf(f) ==
    [fin |-> f.fin, rsv1 |-> FALSE, rsv2 |-> FALSE, rsv3 |-> FALSE,
     opcode |-> f.opcode, mask |-> f.mask,
     masking_key |-> IF f.mask THEN << 1, 2, 3, 4 >> ELSE << >>,
     application_data |-> f.data]

\* A split in which both halves share one Mutex.
split_shared == [reader |-> "arc_s", writer |-> "arc_s"]

\* stream_splitter::split: the Mutex each half locks. The reader half has its
\* own Mutex, around a try_clone of the stream.
split == [reader |-> "arc_s_clone", writer |-> "arc_s"]

\* The threads that write frames: the owner of the connection (send), the
\* holder of a Sender (Sender::send), the reader task (handle).
Writers == {"owner", "sender", "reader"}

\* Number of Pings the peer sends while the threads write.
MaxPings == 1

\* The halves just split, no write begun, the reader task not yet in a read.
WireIdle ==
    /\ mutexes = [m \in {split.reader, split.writer} |-> "none"]
    /\ wr = [t \in Writers |-> [pc |-> "idle", buf |-> << >>]]
    /\ tcp = << >>
    /\ rdpc = "idle"
    /\ peerPings = MaxPings

\* No handshake in progress.
HsIdle ==
    /\ header = [leading |-> << >>, lines |-> << >>, terminated |-> FALSE]
    /\ hpc = "none"
    /\ hres = "none"
    /\ conn = FALSE
    /\ accepted = "none"

\* No Sender in use.
SenderIdle ==
    /\ ssends = 0
    /\ sres = [r |-> "none", pre |-> "Open", shut |-> FALSE]

\* HTTPHeader::new, nothing written or parsed.
HttpIdle ==
    /\ built = [leading_line |-> << >>, pairs |-> << >>]
    /\ hbytes = << >>
    /\ parsed = [r |-> "none", leading_line |-> << >>, pairs |-> << >>]

\* The other levels of the model at rest.
OtherIdle == ByteIdle /\ WireIdle /\ HsIdle /\ SenderIdle /\ HttpIdle

\* WebSocketConnection::new
ConnInit ==
    /\ state = "Open"
    /\ readGuards = {}
    /\ inbound = << >>
    /\ sent = 0
    /\ peerEof = FALSE
    /\ wire = << >>
    /\ writerShut = FALSE
    /\ fragmented_seq = << >>
    /\ received = << >>
    /\ rpc = "none"
    /\ timeouts = 0
    /\ cur = NoFrame
    /\ hstate = "Open"
    /\ yielded = << >>
    /\ delivered = << >>
    /\ stopTokens = 0
    /\ stop = "none"
    /\ afterStop = 0
    /\ opc = "idle"
    /\ sends = 0
    /\ res = [op |-> "none", r |-> "none", pre |-> "Open", late |-> FALSE,
              wrote |-> 0]

Init == ConnInit /\ OtherIdle

\* ------------------------------------------------------------------ reader
\* The state RwLock grants a write guard only when no read guard is held.
WriteLockFree == readGuards = {}

\* FrameIter::try_read_one applied to the frame f that Frame::read returned:
\* ok is FALSE for Err(WouldBlock); seq is fragmented_seq afterwards.
try_read_one(f) ==
    IF f.fin
    THEN IF fragmented_seq = << >>
         THEN [ok |-> TRUE, frame |-> f, seq |-> fragmented_seq]
         ELSE [ok |-> TRUE,
               frame |-> from_fragmented(Append(fragmented_seq, f)),
               seq |-> Append(fragmented_seq, f)]
    ELSE [ok |-> FALSE, frame |-> NoFrame, seq |-> Append(fragmented_seq, f)]

\* WebSocketConnection::on_message: spawns the background reader task.
OnMessage ==
    /\ opc = "idle"
    /\ rpc = "none"
    /\ rpc' = "read"
    /\ UNCHANGED << timeouts, state, readGuards, inbound, sent, peerEof, wire, writerShut,
                    fragmented_seq, received, cur, hstate, yielded, delivered,
                    stopTokens, stop, afterStop, opc, sends, res,
                    otherVars >>

\* FrameIter::next, one pass of the loop in which Frame::read returns a frame:
\* try_read_one, then the dispatch on SpecialFrameHandler::handle's opcode match,
\* then (for Ok(false)) the ok() and messages() adapters.
ReadFrame ==
    /\ rpc = "read"
    /\ inbound # << >>
    /\ LET f == Head(inbound)
           t == try_read_one(f)
       IN /\ inbound' = Tail(inbound)
          /\ received' = Append(received, f)
          /\ fragmented_seq' = t.seq
          /\ IF ~t.ok
             THEN /\ rpc' = "read"
                  /\ UNCHANGED << cur, yielded >>
             ELSE IF t.frame.opcode = "ConnectionClose"
             THEN /\ rpc' = "h_read"
                  /\ cur' = t.frame
                  /\ UNCHANGED yielded
             ELSE IF t.frame.opcode = "Ping"
             THEN /\ rpc' = "h_pong"
                  /\ cur' = t.frame
                  /\ UNCHANGED yielded
             ELSE IF IsMessage(t.frame)
             THEN /\ rpc' = "zip"
                  /\ cur' = t.frame
                  /\ yielded' = Append(yielded, MessageFromFrame(t.frame))
             ELSE /\ rpc' = "read"
                  /\ UNCHANGED << cur, yielded >>
    /\ timeouts' = 0
    /\ UNCHANGED << state, readGuards, sent, peerEof, wire, writerShut, hstate,
                    delivered, stopTokens, stop, afterStop, opc, sends, res,
                    otherVars >>

\* FrameIter::next: the read timed out (WouldBlock), the loop continues.
ReadTimeout ==
    /\ rpc = "read"
    /\ inbound = << >>
    /\ ~peerEof
    /\ timeouts' = (timeouts + 1) % 2
    /\ UNCHANGED << state, readGuards, inbound, sent, peerEof, wire, writerShut,
                    fragmented_seq, received, rpc, cur, hstate, yielded,
                    delivered, stopTokens, stop, afterStop, opc, sends, res,
                    otherVars >>

\* FrameIter::next: Frame::read returned Eof, next returns None, the task ends.
ReadEof ==
    /\ rpc = "read"
    /\ inbound = << >>
    /\ peerEof
    /\ rpc' = "done"
    /\ timeouts' = 0
    /\ UNCHANGED << state, readGuards, inbound, sent, peerEof, wire, writerShut,
                    fragmented_seq, received, cur, hstate, yielded, delivered,
                    stopTokens, stop, afterStop, opc, sends, res,
                    otherVars >>

\* handle, ConnectionClose arm: `let state = &*self.state.read().unwrap();`
\* The read guard lives as long as the local `state`, to the end of the arm.
HandleCloseRead ==
    /\ rpc = "h_read"
    /\ readGuards' = readGuards \cup {"reader"}
    /\ hstate' = state
    /\ rpc' = "h_echo"
    /\ UNCHANGED << timeouts, state, inbound, sent, peerEof, wire, writerShut,
                    fragmented_seq, received, cur, yielded, delivered,
                    stopTokens, stop, afterStop, opc, sends, res,
                    otherVars >>

\* handle, ConnectionClose arm: the echo (write_all, flush) when state was Open.
\* A failed write returns Err through `?`: the guard is dropped, next() yields
\* Some(Err), which ok() filters, and the loop reads again.
HandleCloseEcho ==
    /\ rpc = "h_echo"
    /\ IF hstate = "Open"
       THEN IF writerShut
            THEN /\ rpc' = "read"
                 /\ cur' = NoFrame
                 /\ readGuards' = readGuards \ {"reader"}
                 /\ UNCHANGED wire
            ELSE /\ wire' = Append(wire, cur)
                 /\ rpc' = "h_shutdown"
                 /\ UNCHANGED << cur, readGuards >>
       ELSE /\ rpc' = "h_shutdown"
            /\ UNCHANGED << wire, cur, readGuards >>
    /\ UNCHANGED << timeouts, state, inbound, sent, peerEof, writerShut, fragmented_seq,
                    received, hstate, yielded, delivered, stopTokens, stop,
                    afterStop, opc, sends, res,
                    otherVars >>

\* handle, ConnectionClose arm: self.writer.shutdown() when Open or CloseSent.
HandleCloseShutdown ==
    /\ rpc = "h_shutdown"
    /\ writerShut' = (writerShut \/ hstate \in {"Open", "CloseSent"})
    /\ rpc' = "h_write"
    /\ UNCHANGED << timeouts, state, readGuards, inbound, sent, peerEof, wire,
                    fragmented_seq, received, cur, hstate, yielded, delivered,
                    stopTokens, stop, afterStop, opc, sends, res,
                    otherVars >>

\* A handler that drops its read guard before it asks for the write guard.
HandleCloseStateWrite_GuardDropped ==
    /\ rpc = "h_write"
    /\ readGuards \ {"reader"} = {}
    /\ readGuards' = {}
    /\ state' = "Closed"
    /\ rpc' = "read"
    /\ cur' = NoFrame
    /\ UNCHANGED << timeouts, inbound, sent, peerEof, wire, writerShut, fragmented_seq,
                    received, hstate, yielded, delivered, stopTokens, stop,
                    afterStop, opc, sends, res,
                    otherVars >>

\* handle, ConnectionClose arm: `*self.state.write().unwrap() = Closed` while
\* this thread still holds its read guard. RwLock::write then blocks forever or
\* panics (std: "might panic when called if the lock is already held by the
\* current thread"); a panic unwinds the task and drops the guard.
HandleCloseStateWrite ==
    /\ rpc = "h_write"
    /\ "reader" \in readGuards
    /\ ~WriteLockFree
    /\ \/ /\ rpc' = "deadlock"
          /\ UNCHANGED readGuards
       \/ /\ rpc' = "panic"
          /\ readGuards' = readGuards \ {"reader"}
    /\ UNCHANGED << timeouts, state, inbound, sent, peerEof, wire, writerShut,
                    fragmented_seq, received, cur, hstate, yielded, delivered,
                    stopTokens, stop, afterStop, opc, sends, res,
                    otherVars >>

\* handle, Ping arm: writes Frame::pong(); a failed write yields Some(Err),
\* which ok() filters.
HandlePong ==
    /\ rpc = "h_pong"
    /\ wire' = IF writerShut THEN wire ELSE Append(wire, pong)
    /\ rpc' = "read"
    /\ cur' = NoFrame
    /\ UNCHANGED << timeouts, state, readGuards, inbound, sent, peerEof, writerShut,
                    fragmented_seq, received, hstate, yielded, delivered,
                    stopTokens, stop, afterStop, opc, sends, res,
                    otherVars >>

\* on_message: iter.messages().zip(stopper) has its message and now asks the
\* stopper: try_recv() = Ok(()) ends the loop and drops the message.
ZipStopper ==
    /\ rpc = "zip"
    /\ IF stopTokens > 0
       THEN /\ stopTokens' = stopTokens - 1
            /\ rpc' = "done"
            /\ cur' = NoFrame
       ELSE /\ rpc' = "callback"
            /\ UNCHANGED << stopTokens, cur >>
    /\ UNCHANGED << timeouts, state, readGuards, inbound, sent, peerEof, wire, writerShut,
                    fragmented_seq, received, hstate, yielded, delivered, stop,
                    afterStop, opc, sends, res,
                    otherVars >>

\* on_message: (f)(message)
Callback ==
    /\ rpc = "callback"
    /\ delivered' = Append(delivered, MessageFromFrame(cur))
    /\ afterStop' = afterStop + (IF stop = "none" THEN 0 ELSE 1)
    /\ rpc' = "read"
    /\ cur' = NoFrame
    /\ UNCHANGED << timeouts, state, readGuards, inbound, sent, peerEof, wire, writerShut,
                    fragmented_seq, received, hstate, yielded, stopTokens, stop,
                    opc, sends, res,
                    otherVars >>

Reader ==
    \/ ReadFrame
    \/ ReadTimeout
    \/ ReadEof
    \/ HandleCloseRead
    \/ HandleCloseEcho
    \/ HandleCloseShutdown
    \/ HandleCloseStateWrite
    \/ HandlePong
    \/ ZipStopper
    \/ Callback

\* MessageHandler::stop: self.sender.send(()).unwrap(); the send fails, and the
\* unwrap panics, once the task has ended and dropped the receiver.
Stop ==
    /\ rpc # "none"
    /\ stop = "none"
    /\ IF rpc \in {"done", "panic"}
       THEN /\ stop' = "panic"
            /\ UNCHANGED stopTokens
       ELSE /\ stop' = "ok"
            /\ stopTokens' = stopTokens + 1
    /\ UNCHANGED << timeouts, state, readGuards, inbound, sent, peerEof, wire, writerShut,
                    fragmented_seq, received, rpc, cur, hstate, yielded,
                    delivered, afterStop, opc, sends, res,
                    otherVars >>

\* ------------------------------------------------------------------ owner
\* The message the owner sends.
OwnerMessage == [type |-> "Text", data |-> << 0 >>]

\* The reader has shut the writer down and its handling of the Close has ended.
HandlerEnded == writerShut /\ rpc \in {"deadlock", "panic"}

\* WebSocketConnection::send, the state check (the read guard is a temporary
\* of the condition and is dropped before the write).
SendCheck ==
    /\ opc = "idle"
    /\ sends < MaxSends
    /\ sends' = sends + 1
    /\ IF state # "Open"
       THEN /\ res' = [op |-> "send", r |-> "InvalidConnectionState",
                       pre |-> state, late |-> HandlerEnded, wrote |-> 0]
            /\ UNCHANGED opc
       ELSE /\ res' = [op |-> "send", r |-> "pending", pre |-> state,
                       late |-> HandlerEnded, wrote |-> 0]
            /\ opc' = "send_write"
    /\ UNCHANGED << timeouts, state, readGuards, inbound, sent, peerEof, wire, writerShut,
                    fragmented_seq, received, rpc, cur, hstate, yielded,
                    delivered, stopTokens, stop, afterStop,
                    otherVars >>

\* WebSocketConnection::send, the write_all of the frame.
SendWrite ==
    /\ opc = "send_write"
    /\ opc' = "idle"
    /\ IF writerShut
       THEN /\ res' = [res EXCEPT !.r = "UnknownError"]
            /\ UNCHANGED wire
       ELSE /\ wire' = Append(wire, FrameFromMessage(OwnerMessage))
            /\ res' = [res EXCEPT !.r = "Ok", !.wrote = 1]
    /\ UNCHANGED << timeouts, state, readGuards, inbound, sent, peerEof, writerShut,
                    fragmented_seq, received, rpc, cur, hstate, yielded,
                    delivered, stopTokens, stop, afterStop, sends,
                    otherVars >>

\* WebSocketConnection::close, the state check; close consumes the connection.
CloseCheck ==
    /\ opc = "idle"
    /\ IF state # "Open"
       THEN /\ res' = [op |-> "close", r |-> "InvalidConnectionState",
                       pre |-> state, late |-> HandlerEnded, wrote |-> 0]
            /\ opc' = "consumed"
       ELSE /\ res' = [op |-> "close", r |-> "pending", pre |-> state,
                       late |-> HandlerEnded, wrote |-> 0]
            /\ opc' = "close_set"
    /\ UNCHANGED << timeouts, state, readGuards, inbound, sent, peerEof, wire, writerShut,
                    fragmented_seq, received, rpc, cur, hstate, yielded,
                    delivered, stopTokens, stop, afterStop, sends,
                    otherVars >>

\* WebSocketConnection::close: `*self.state.write().unwrap() = CloseSent`
CloseSet ==
    /\ opc = "close_set"
    /\ WriteLockFree
    /\ state' = "CloseSent"
    /\ opc' = "close_write"
    /\ UNCHANGED << timeouts, readGuards, inbound, sent, peerEof, wire, writerShut,
                    fragmented_seq, received, rpc, cur, hstate, yielded,
                    delivered, stopTokens, stop, afterStop, sends, res,
                    otherVars >>

\* WebSocketConnection::close: write_all of the Close frame, then flush.
CloseWrite ==
    /\ opc = "close_write"
    /\ opc' = "consumed"
    /\ IF writerShut
       THEN /\ res' = [res EXCEPT !.r = "UnknownError"]
            /\ UNCHANGED wire
       ELSE /\ wire' = Append(wire, connection_close)
            /\ res' = [res EXCEPT !.r = "Ok", !.wrote = 1]
    /\ UNCHANGED << timeouts, state, readGuards, inbound, sent, peerEof, writerShut,
                    fragmented_seq, received, rpc, cur, hstate, yielded,
                    delivered, stopTokens, stop, afterStop, sends,
                    otherVars >>

Owner ==
    \/ OnMessage
    \/ SendCheck
    \/ SendWrite
    \/ CloseCheck
    \/ CloseSet
    \/ CloseWrite

Next ==
    \/ \E k \in PeerKinds : PeerSend(k)
    \/ PeerShutdown
    \/ Reader
    \/ Stop
    \/ Owner

Spec == Init /\ [][Next]_vars

\* The scheduler runs the reader task whenever it can take a step.
FairSpec == Spec /\ WF_vars(Reader)

\* ------------------------------------------------------------------ byte level
\* The masking key of the frames that carry one.
MaskingKey == << 1, 2, 3, 4 >>

\* A payload of n bytes.
Payload(n) == [i \in 1..n |-> 97]

\* The sending side encodes its next frame with Frame::to_bytes and writes the
\* bytes: into the slice the reader is given, or to the transport.
Serialize ==
    /\ Len(encoded) < Len(input)
    /\ LET f == input[Len(encoded) + 1]
       IN /\ encoded' = Append(encoded, f)
          /\ IF srcEof
             THEN /\ sock' = sock \o to_bytes(f)
                  /\ UNCHANGED pending
             ELSE /\ pending' = pending \o to_bytes(f)
                  /\ UNCHANGED sock
    /\ UNCHANGED << input, srcEof, rd, out, iterNone, notByte >>

\* The transport delivers the next n bytes in flight to the receiving socket.
Arrive(n) ==
    /\ n \in 1..Len(pending)
    /\ sock' = sock \o SubSeq(pending, 1, n)
    /\ pending' = SubSeq(pending, n + 1, Len(pending))
    /\ UNCHANGED << input, encoded, srcEof, rd, out, iterNone, notByte >>

\* Frame::read, one read of the read_exact in progress: it takes the bytes that
\* have arrived, as many as read_exact still wants. Once read_exact has its
\* bytes Frame::read goes on to its next read_exact, or returns the frame to
\* FrameIter::next, whose loop calls Frame::read again.
TakeBytes ==
    /\ ~iterNone
    /\ encoded # << >>
    /\ LET want == Wanted(rd) - Len(rd.buf)
           n == IF Len(sock) < want THEN Len(sock) ELSE want
           r == [rd EXCEPT !.buf = rd.buf \o SubSeq(sock, 1, n)]
       IN /\ want = 0 \/ sock # << >>
          /\ sock' = SubSeq(sock, n + 1, Len(sock))
          /\ IF Len(r.buf) < Wanted(r)
             THEN /\ rd' = r
                  /\ UNCHANGED out
             ELSE IF r.stage = "payload"
             THEN /\ out' = Append(out, FrameRead(r))
                  /\ rd' = ReadStart
             ELSE /\ rd' = Parsed(r)
                  /\ UNCHANGED out
    /\ UNCHANGED << input, encoded, pending, srcEof, iterNone, notByte >>

\* The read timeout set by WebSocketConnection::new expires in the read of the
\* read_exact in progress: read_exact returns the error and the bytes it had
\* put in its buffer go with the buffer. take_bytes maps the error to
\* FrameError::WouldBlock, on which FrameIter::next calls Frame::read again; the
\* read_exact of the payload maps every error to FrameError::Eof, on which
\* FrameIter::next returns None.
TakeWouldBlock ==
    /\ ~iterNone
    /\ ~srcEof
    /\ sock = << >>
    /\ Wanted(rd) > Len(rd.buf)
    /\ IF rd.stage = "payload"
       THEN /\ iterNone' = TRUE
            /\ UNCHANGED rd
       ELSE /\ rd' = ReadStart
            /\ UNCHANGED iterNone
    /\ UNCHANGED << input, encoded, pending, sock, srcEof, out, notByte >>

\* The source is at its end: read returns 0, read_exact fails with
\* UnexpectedEof, Frame::read returns FrameError::Eof, next returns None.
TakeEof ==
    /\ ~iterNone
    /\ srcEof
    /\ Len(encoded) = Len(input)
    /\ sock = << >>
    /\ Wanted(rd) > Len(rd.buf)
    /\ iterNone' = TRUE
    /\ UNCHANGED << input, encoded, pending, sock, srcEof, rd, out, notByte >>

\* The longest payload of the frames of CodecSpec.
LongLen == 126

\* The frames of CodecSpec: every opcode, every setting of fin and the rsv
\* bits, with and without a masking key, payloads on both sides of 125 bytes.
CodecFrames ==
    [fin : BOOLEAN, rsv1 : BOOLEAN, rsv2 : BOOLEAN, rsv3 : BOOLEAN,
     opcode : OpCode, mask : {FALSE}, masking_key : {<< >>},
     application_data : {Payload(n) : n \in {0, 1, 125, LongLen}}]
    \cup
    [fin : BOOLEAN, rsv1 : BOOLEAN, rsv2 : BOOLEAN, rsv3 : BOOLEAN,
     opcode : OpCode, mask : {TRUE}, masking_key : {MaskingKey},
     application_data : {Payload(n) : n \in {0, 1, 125, LongLen}}]

\* tests::can_serialize_frames, for any frame: the frame is encoded into a
\* slice and Frame::read is called on the slice.
CodecInit ==
    /\ ConnInit
    /\ input \in {<< f >> : f \in CodecFrames}
    /\ encoded = << >>
    /\ pending = << >>
    /\ sock = << >>
    /\ srcEof = TRUE
    /\ rd = ReadStart
    /\ out = << >>
    /\ iterNone = FALSE
    /\ WireIdle /\ HsIdle /\ SenderIdle /\ HttpIdle

CodecNext == Serialize \/ TakeBytes \/ TakeEof

CodecSpec == CodecInit /\ [][CodecNext]_vars

\* The frames a peer sends in StreamSpec, all of them short.
StreamFrames ==
    { [fin |-> TRUE, rsv1 |-> FALSE, rsv2 |-> FALSE, rsv3 |-> FALSE,
       opcode |-> "Text", mask |-> FALSE, masking_key |-> << >>,
       application_data |-> << 97 >>],
      [fin |-> TRUE, rsv1 |-> FALSE, rsv2 |-> FALSE, rsv3 |-> FALSE,
       opcode |-> "Binary", mask |-> TRUE, masking_key |-> MaskingKey,
       application_data |-> << 98, 99 >>],
      [fin |-> TRUE, rsv1 |-> FALSE, rsv2 |-> FALSE, rsv3 |-> FALSE,
       opcode |-> "Ping", mask |-> FALSE, masking_key |-> << >>,
       application_data |-> << >>] }

\* Number of frames the peer sends in StreamSpec.
StreamLen == 2

\* A peer writes frames to the transport, which delivers their bytes in pieces;
\* the reader's socket has the read timeout of WebSocketConnection::new.
StreamInit ==
    /\ ConnInit
    /\ input \in [1..StreamLen -> StreamFrames]
    /\ encoded = << >>
    /\ pending = << >>
    /\ sock = << >>
    /\ srcEof = FALSE
    /\ rd = ReadStart
    /\ out = << >>
    /\ iterNone = FALSE
    /\ WireIdle /\ HsIdle /\ SenderIdle /\ HttpIdle

StreamNext ==
    \/ Serialize
    \/ \E n \in 1..Len(pending) : Arrive(n)
    \/ TakeBytes
    \/ TakeWouldBlock

StreamSpec == StreamInit /\ [][StreamNext]_vars

\* The peer shuts its side down after the last of its frames has arrived: from
\* now on a read that finds no byte returns 0.
SourceEnds ==
    /\ ~srcEof
    /\ input # << >>
    /\ Len(encoded) = Len(input)
    /\ pending = << >>
    /\ srcEof' = TRUE
    /\ UNCHANGED << input, encoded, pending, sock, rd, out, iterNone, notByte >>

ReadNext ==
    \/ Serialize
    \/ \E n \in 1..Len(pending) : Arrive(n)
    \/ TakeBytes
    \/ TakeWouldBlock
    \/ SourceEnds
    \/ TakeEof

\* StreamSpec with a peer that may end the stream.
ReadSpec == StreamInit /\ [][ReadNext]_vars

\* ------------------------------------------------------------------ wire
\* The frame each thread writes: the owner and the Sender a message, the reader
\* task the Pong that answers a Ping.
WireFrame(t) ==
    CASE t = "owner" -> FrameFromMessage(OwnerMessage)
      [] t = "sender" -> FrameFromMessage(SenderMessage)
      [] t = "reader" -> pong

\* The bytes of thread t's frame, each with t and its place in the frame.
Tagged(t) ==
    LET b == to_bytes(FrameOf(WireFrame(t)))
    IN [i \in 1..Len(b) |-> [by |-> t, at |-> i, byte |-> b[i]]]

\* WebSocketConnection::send and Sender::send, to the call of write_all: the
\* frame is encoded and write_all is entered with its bytes.
WriteAllBegin(t) ==
    /\ t \in {"owner", "sender"}
    /\ wr[t].pc = "idle"
    /\ wr' = [wr EXCEPT ![t] = [pc |-> "write", buf |-> Tagged(t)]]
    /\ UNCHANGED << mutexes, tcp, rdpc, peerPings, notWire >>

\* TcpWriterHalf::write, called by write_all while buf is not empty:
\* self.0.lock()
WriteLock(t) ==
    /\ wr[t].pc = "write"
    /\ mutexes[split.writer] = "none"
    /\ mutexes' = [mutexes EXCEPT ![split.writer] = t]
    /\ wr' = [wr EXCEPT ![t].pc = "locked"]
    /\ UNCHANGED << tcp, rdpc, peerPings, notWire >>

\* TcpWriterHalf::write: TcpStream::write accepts the first n bytes of buf and
\* the guard is dropped; write_all goes on with the rest of buf, or returns.
\* When the reader task's write_all returns, the task goes back to reading.
WriteSome(t, n) ==
    /\ wr[t].pc = "locked"
    /\ n \in 1..Len(wr[t].buf)
    /\ tcp' = tcp \o SubSeq(wr[t].buf, 1, n)
    /\ mutexes' = [mutexes EXCEPT ![split.writer] = "none"]
    /\ wr' = [wr EXCEPT ![t] =
                 [pc |-> IF n = Len(wr[t].buf) THEN "done" ELSE "write",
                  buf |-> SubSeq(wr[t].buf, n + 1, Len(wr[t].buf))]]
    /\ rdpc' = IF t = "reader" /\ n = Len(wr[t].buf) THEN "idle" ELSE rdpc
    /\ UNCHANGED << peerPings, notWire >>

\* TcpReaderHalf::read: self.0.lock(), then TcpStream::read, which blocks until
\* bytes arrive or the read timeout expires.
HalfReadLock ==
    /\ rdpc = "idle"
    /\ mutexes[split.reader] = "none"
    /\ mutexes' = [mutexes EXCEPT ![split.reader] = "reader"]
    /\ rdpc' = "in_read"
    /\ UNCHANGED << wr, tcp, peerPings, notWire >>

\* TcpReaderHalf::read returns WouldBlock: the guard is dropped, and
\* FrameIter::next reads again.
HalfReadWouldBlock ==
    /\ rdpc = "in_read"
    /\ mutexes' = [mutexes EXCEPT ![split.reader] = "none"]
    /\ rdpc' = "idle"
    /\ UNCHANGED << wr, tcp, peerPings, notWire >>

\* TcpReaderHalf::read returns the bytes of a Ping: the guard is dropped, and
\* handle's Ping arm enters write_all with the bytes of Frame::pong().
HalfReadPing ==
    /\ rdpc = "in_read"
    /\ peerPings > 0
    /\ peerPings' = peerPings - 1
    /\ mutexes' = [mutexes EXCEPT ![split.reader] = "none"]
    /\ rdpc' = "handle"
    /\ wr' = [wr EXCEPT !["reader"] = [pc |-> "write", buf |-> Tagged("reader")]]
    /\ UNCHANGED << tcp, notWire >>

\* One step of thread t inside write_all.
WriteStep(t) == WriteLock(t) \/ \E n \in 1..Len(wr[t].buf) : WriteSome(t, n)

WireNext ==
    \/ \E t \in Writers : WriteAllBegin(t)
    \/ \E t \in Writers : WriteLock(t)
    \/ \E t \in Writers : \E n \in 1..Len(wr[t].buf) : WriteSome(t, n)
    \/ HalfReadLock
    \/ HalfReadWouldBlock
    \/ HalfReadPing

WireSpec == Init /\ [][WireNext]_vars

\* A thread inside write_all is scheduled, and the socket accepts bytes; the
\* read of the reader task may never return.
WireFairSpec == WireSpec /\ \A t \in Writers : WF_vars(WriteStep(t))

\* ------------------------------------------------------------------ sender
\* Number of frames the peer sends in WideSpec.
MaxWideFrames == 1

\* A Sender::send that checks the connection state first, as
\* WebSocketConnection::send does.
SenderSend_StateChecked ==
    /\ ssends < MaxSends
    /\ ssends' = ssends + 1
    /\ IF state # "Open"
       THEN /\ sres' = [r |-> "InvalidConnectionState", pre |-> state,
                        shut |-> writerShut]
            /\ UNCHANGED wire
       ELSE IF writerShut
       THEN /\ sres' = [r |-> "Err", pre |-> state, shut |-> writerShut]
            /\ UNCHANGED wire
       ELSE /\ wire' = Append(wire, FrameFromMessage(SenderMessage))
            /\ sres' = [r |-> "Ok", pre |-> state, shut |-> writerShut]
    /\ UNCHANGED << state, readGuards, inbound, sent, peerEof, writerShut,
                    fragmented_seq, received, rpc, timeouts, cur, hstate,
                    yielded, delivered, stopTokens, stop, afterStop, opc, sends,
                    res, byteVars, wireVars, hsVars, httpVars >>

\* Sender::send: Frame::from(message), to_bytes, write_all on the Sender's
\* clone of the writer half. The write fails once the socket has been shut
\* down for writing.
SenderSend ==
    /\ ssends < MaxSends
    /\ ssends' = ssends + 1
    /\ IF writerShut
       THEN /\ sres' = [r |-> "Err", pre |-> state, shut |-> writerShut]
            /\ UNCHANGED wire
       ELSE /\ wire' = Append(wire, FrameFromMessage(SenderMessage))
            /\ sres' = [r |-> "Ok", pre |-> state, shut |-> writerShut]
    /\ UNCHANGED << state, readGuards, inbound, sent, peerEof, writerShut,
                    fragmented_seq, received, rpc, timeouts, cur, hstate,
                    yielded, delivered, stopTokens, stop, afterStop, opc, sends,
                    res, byteVars, wireVars, hsVars, httpVars >>

\* A peer that masks its frames, as a client does: PeerSend with the mask bit
\* and a masking key. Frame::read decodes the payload and keeps mask and
\* masking_key in the frame.
PeerSendMasked(k) ==
    /\ sent < MaxWideFrames
    /\ ~peerEof
    /\ inbound = << >>
    /\ ~PeerClosed(PeerSent)
    /\ k.opcode = "Continuation" => PeerMid(PeerSent)
    /\ k.opcode = "Text" => ~PeerMid(PeerSent)
    /\ inbound' = Append(inbound,
                    [fin |-> k.fin, opcode |-> k.opcode, mask |-> TRUE,
                     data |-> << sent + 1 >>])
    /\ sent' = sent + 1
    /\ UNCHANGED << timeouts, state, readGuards, peerEof, wire, writerShut,
                    fragmented_seq, received, rpc, cur, hstate, yielded,
                    delivered, stopTokens, stop, afterStop, opc, sends, res,
                    otherVars >>

\* The connection with a Sender at work and a peer of either kind, on a
\* shorter run of peer frames.
WideNext ==
    \/ \E k \in PeerKinds : sent < MaxWideFrames /\ PeerSend(k)
    \/ \E k \in PeerKinds : PeerSendMasked(k)
    \/ PeerShutdown
    \/ Reader
    \/ Stop
    \/ Owner
    \/ SenderSend

WideSpec == Init /\ [][WideNext]_vars

\* ------------------------------------------------------------------ handshake
\* The bytes of a header are modelled in runs: "CRLF" stands for "\r\n", ":"
\* and " " for those bytes, and any other string for that run of other bytes.
CRLF == "CRLF"

\* Iterator for Lines: the lines of bytes, each ended by "\r\n"; what follows
\* the last "\r\n" is no line.
RECURSIVE Lines(_)
Lines(bytes) ==
    IF \A i \in 1..Len(bytes) : bytes[i] # CRLF THEN << >>
    ELSE LET index == CHOOSE i \in 1..Len(bytes) :
                          /\ bytes[i] = CRLF
                          /\ \A j \in 1..(i - 1) : bytes[j] # CRLF
         IN << SubSeq(bytes, 1, index - 1) >>
                \o Lines(SubSeq(bytes, index + 1, Len(bytes)))

\* line.split(|c| (*c as char) == ':'): the pieces of line between its colons
RECURSIVE Split(_)
Split(line) ==
    IF \A i \in 1..Len(line) : line[i] # ":" THEN << line >>
    ELSE LET index == CHOOSE i \in 1..Len(line) :
                          /\ line[i] = ":"
                          /\ \A j \in 1..(i - 1) : line[j] # ":"
         IN << SubSeq(line, 1, index - 1) >>
                \o Split(SubSeq(line, index + 1, Len(line)))

\* trim, the first loop: s, counted from 0 as in the code
RECURSIVE trim_s(_, _)
trim_s(x, s) ==
    IF s = Len(x) - 1 \/ x[s + 1] # " " THEN s ELSE trim_s(x, s + 1)

\* trim, the second loop: e, counted from 0
RECURSIVE trim_e(_, _)
trim_e(x, e) ==
    IF e = 0 \/ x[e + 1] # " " THEN e ELSE trim_e(x, e - 1)

\* trim panics on an empty slice (x.len() - 1 overflows, or x[0] is out of
\* bounds where the overflow wraps), and when &x[s..=e] has s beyond e + 1.
trim_panics(x) ==
    \/ x = << >>
    \/ trim_s(x, 0) > trim_e(x, Len(x) - 1) + 1

\* trim: &x[s..=e]
trim(x) == SubSeq(x, trim_s(x, 0) + 1, trim_e(x, Len(x) - 1) + 1)

\* HTTPHeader::from_bytes, the State::Pair arm over the lines that follow the
\* leading line. r is "Ok", an InvalidHTTPHeader, or "panic".
RECURSIVE pairs_of(_, _)
pairs_of(lines, pairs) ==
    IF lines = << >>
    THEN [r |-> "MissingTrailingNewLine", pairs |-> pairs]
    ELSE LET line == Head(lines)
             spl == Split(line)
         IN IF line = << >> THEN [r |-> "Ok", pairs |-> pairs]
            ELSE IF trim_panics(spl[1]) THEN [r |-> "panic", pairs |-> pairs]
            ELSE IF Len(spl) < 2 THEN [r |-> "EOF", pairs |-> pairs]
            ELSE IF trim_panics(spl[2]) THEN [r |-> "panic", pairs |-> pairs]
            ELSE pairs_of(Tail(lines),
                          Append(pairs, [name |-> trim(spl[1]),
                                         value |-> trim(spl[2])]))

\* HTTPHeader::from_bytes
from_bytes(b) ==
    LET lines == Lines(b)
    IN IF lines = << >>
       THEN [r |-> "MissingTrailingNewLine", leading_line |-> << >>,
             pairs |-> << >>]
       ELSE LET p == pairs_of(Tail(lines), << >>)
            IN [r |-> p.r, leading_line |-> Head(lines), pairs |-> p.pairs]

\* HTTPHeader::read: one read into the 512-byte buffer, which returns an error
\* (read = -1 here), 0, or the first `read` bytes of what the other side sent.
\* from_bytes is given the whole buffer; the zeros after the bytes read hold
\* no "\r\n", so Lines finds no line in them.
header_read(bytes, read) ==
    IF read <= 0
    THEN [r |-> "EOF", leading_line |-> << >>, pairs |-> << >>]
    ELSE from_bytes(SubSeq(bytes, 1, read))

\* HTTPHeader::get_value: << >> for None, << value >> for Some(value)
get_value(h, name) ==
    LET found == {i \in 1..Len(h.pairs) : h.pairs[i].name = name}
    IN IF found = {} THEN << >>
       ELSE << h.pairs[CHOOSE i \in found : \A j \in found : i <= j].value >>

StatusLine101 ==
    << "HTTP/1.1", " ", "101", " ", "Switching", " ", "Protocols" >>

\* HTTPHeader::is_valid_websocket_response
is_valid_websocket_response(h) ==
    /\ h.leading_line = StatusLine101
    /\ get_value(h, << "Connection" >>) = << << "Upgrade" >> >>
    /\ get_value(h, << "Upgrade" >>) = << << "websocket" >> >>

\* HTTPHeader::is_valid_websocket_request
is_valid_websocket_request(h) ==
    /\ h.leading_line # << >> /\ h.leading_line[1] = "GET"
    /\ get_value(h, << "Connection" >>) = << << "Upgrade" >> >>
    /\ get_value(h, << "Upgrade" >>) = << << "websocket" >> >>

\* The header lines the other side chooses from: the two a handshake needs, a
\* field with an empty value, and a line that has no colon.
HeaderLines ==
    { [name |-> << "Connection" >>, sep |-> << ":", " " >>,
       value |-> << "Upgrade" >>],
      [name |-> << "Upgrade" >>, sep |-> << ":", " " >>,
       value |-> << "websocket" >>],
      [name |-> << "X" >>, sep |-> << ":" >>, value |-> << >>],
      [name |-> << "garbage" >>, sep |-> << >>, value |-> << >>] }

\* Number of header lines the other side sends after the leading line.
MaxLines == 2

\* The headers with the leading lines of `leads`.
Headers(leads) ==
    [leading : leads,
     lines : UNION {[1..n -> HeaderLines] : n \in 0..MaxLines},
     terminated : BOOLEAN]

\* The bytes of a header as the other side writes them.
RECURSIVE RenderLines(_)
RenderLines(lines) ==
    IF lines = << >> THEN << >>
    ELSE Head(lines).name \o Head(lines).sep \o Head(lines).value
             \o << CRLF >> \o RenderLines(Tail(lines))

Render(h) ==
    h.leading \o << CRLF >> \o RenderLines(h.lines)
        \o (IF h.terminated THEN << CRLF >> ELSE << >>)

\* WebSocketClient::connect: TcpStream::connect
Connect ==
    /\ hpc = "connect"
    /\ \/ /\ hpc' = "write_all"
          /\ UNCHANGED hres
       \/ /\ hpc' = "done"
          /\ hres' = "UnknownError"
    /\ UNCHANGED << header, conn, accepted, notHs >>

\* WebSocketClient::connect: stream.write_all(&request.to_bytes())
WriteRequest ==
    /\ hpc = "write_all"
    /\ \/ /\ hpc' = "read"
          /\ UNCHANGED hres
       \/ /\ hpc' = "done"
          /\ hres' = "UnknownError"
    /\ UNCHANGED << header, conn, accepted, notHs >>

\* WebSocketClient::connect: HTTPHeader::read, is_valid_websocket_response,
\* Ok(Self { connection: WebSocketConnection::new(stream) }). A panic of the
\* parser unwinds connect.
ReadResponse(read) ==
    /\ hpc = "read"
    /\ hpc' = "done"
    /\ LET response_header == header_read(Render(header), read)
       IN IF response_header.r = "panic"
          THEN hres' = "panic" /\ UNCHANGED conn
          ELSE IF response_header.r # "Ok"
          THEN hres' = "InvalidRequestHeader" /\ UNCHANGED conn
          ELSE IF ~is_valid_websocket_response(response_header)
          THEN hres' = "InvalidRequestHeader" /\ UNCHANGED conn
          ELSE hres' = "Ok" /\ conn' = TRUE
    /\ UNCHANGED << header, accepted, notHs >>

\* The responses of a server: the leading line of the handshake, or 200 OK.
ClientInit ==
    /\ ConnInit /\ ByteIdle /\ WireIdle /\ SenderIdle /\ HttpIdle
    /\ header \in Headers({StatusLine101, << "HTTP/1.1", " ", "200", " ", "OK" >>})
    /\ hpc = "connect"
    /\ hres = "none"
    /\ conn = FALSE
    /\ accepted = "none"

ClientNext ==
    \/ Connect
    \/ WriteRequest
    \/ \E read \in -1..Len(Render(header)) : ReadResponse(read)

ClientSpec == ClientInit /\ [][ClientNext]_vars

\* ConnectionIter::try_get_next: self.listener.accept() fails; the error kind
\* WouldBlock becomes ConnectionError::WouldBlock, any other UnknownError.
TryGetNextAcceptErr ==
    /\ hpc = "try_get_next"
    /\ \E kind \in {"WouldBlock", "Other"} :
          /\ accepted' = kind
          /\ hres' = IF kind = "WouldBlock" THEN "WouldBlock"
                     ELSE "UnknownError"
    /\ hpc' = "match"
    /\ UNCHANGED << header, conn, notHs >>

\* ConnectionIter::try_get_next: accept returns a stream; HTTPHeader::read,
\* is_valid_websocket_request, Ok(WebsocketConnectionPreAccept). A panic of
\* the parser unwinds the thread that iterates.
TryGetNextRequest(read) ==
    /\ hpc = "try_get_next"
    /\ accepted' = "Ok"
    /\ LET request_header == header_read(Render(header), read)
       IN IF request_header.r = "panic"
          THEN hres' = "panic" /\ hpc' = "done"
          ELSE /\ hpc' = "match"
               /\ hres' = IF \/ request_header.r # "Ok"
                             \/ ~is_valid_websocket_request(request_header)
                          THEN "InvalidRequestHeader"
                          ELSE "PreAccept"
    /\ UNCHANGED << header, conn, notHs >>

\* Iterator for ConnectionIter, next: the match on try_get_next's result:
\* WouldBlock continues the loop, everything else is returned.
NextMatch ==
    /\ hpc = "match"
    /\ hpc' = IF hres = "WouldBlock" THEN "try_get_next" ELSE "yielded"
    /\ UNCHANGED << header, hres, conn, accepted, notHs >>

\* ConnectionIter::auto_accept, the closure on the item next() returned:
\* e.and_then(|e| e.accept()).ok(). accept writes the response; an Err, of the
\* item or of accept, is filtered out and filter_map calls next() again.
AutoAccept ==
    /\ hpc = "yielded"
    /\ \/ /\ hres = "PreAccept"
          /\ hres' = "Connection"
          /\ conn' = TRUE
          /\ hpc' = "done"
       \/ /\ hres' = "none"
          /\ hpc' = "try_get_next"
          /\ UNCHANGED conn
    /\ UNCHANGED << header, accepted, notHs >>

\* The requests of a client: a GET, or another method.
ServerInit ==
    /\ ConnInit /\ ByteIdle /\ WireIdle /\ SenderIdle /\ HttpIdle
    /\ header \in Headers({<< "GET", " ", "/", " ", "HTTP/1.1" >>,
                           << "POST", " ", "/", " ", "HTTP/1.1" >>})
    /\ hpc = "try_get_next"
    /\ hres = "none"
    /\ conn = FALSE
    /\ accepted = "none"

ServerNext ==
    \/ TryGetNextAcceptErr
    \/ \E read \in -1..Len(Render(header)) : TryGetNextRequest(read)
    \/ NextMatch
    \/ AutoAccept

ServerSpec == ServerInit /\ [][ServerNext]_vars

\* ------------------------------------------------------------------ header
\* NameValuePair::to_bytes: [name, b": ", value].concat()
pair_to_bytes(pair) == pair.name \o << ":", " " >> \o pair.value

\* HTTPHeader::to_bytes
RECURSIVE pairs_to_bytes(_)
pairs_to_bytes(pairs) ==
    IF pairs = << >> THEN << >>
    ELSE pair_to_bytes(Head(pairs)) \o << CRLF >>
             \o pairs_to_bytes(Tail(pairs))

header_to_bytes(h) ==
    h.leading_line \o << CRLF >> \o pairs_to_bytes(h.pairs) \o << CRLF >>

\* Number of pairs added to a header.
MaxPairs == 2

\* The leading lines, names and values a caller gives: the ones of the
\* handshake and of the tests (a value with a colon, a value of one word).
LeadingLines == {StatusLine101, << "GET", " ", "/", " ", "HTTP/1.1" >>}

Names == {<< "Host" >>, << "Connection" >>, << "Upgrade" >>}

Values == {<< "0.0.0.0", ":", "3000" >>, << "keep-alive" >>, << "Upgrade" >>,
           << "websocket" >>}

\* HTTPHeader::set_leading_line
SetLeadingLine(value) ==
    /\ hbytes = << >>
    /\ built.leading_line = << >>
    /\ built' = [built EXCEPT !.leading_line = value]
    /\ UNCHANGED << hbytes, parsed, notHttp >>

\* HTTPHeader::add
Add(name, value) ==
    /\ hbytes = << >>
    /\ built.leading_line # << >>
    /\ Len(built.pairs) < MaxPairs
    /\ built' = [built EXCEPT
                    !.pairs = Append(@, [name |-> name, value |-> value])]
    /\ UNCHANGED << hbytes, parsed, notHttp >>

\* HTTPHeader::to_bytes of the header built
ToBytes ==
    /\ hbytes = << >>
    /\ built.leading_line # << >>
    /\ hbytes' = header_to_bytes(built)
    /\ UNCHANGED << built, parsed, notHttp >>

\* HTTPHeader::try_from(bytes): from_bytes of the bytes written
FromBytes ==
    /\ hbytes # << >>
    /\ parsed.r = "none"
    /\ parsed' = from_bytes(hbytes)
    /\ UNCHANGED << built, hbytes, notHttp >>

HttpNext ==
    \/ \E value \in LeadingLines : SetLeadingLine(value)
    \/ \E name \in Names, value \in Values : Add(name, value)
    \/ ToBytes
    \/ FromBytes

HttpSpec == Init /\ [][HttpNext]_vars

\* ------------------------------------------------------------------ claims
Terminated == rpc \in {"done", "panic"}

Rank(s) == CASE s = "Open" -> 0 [] s = "CloseSent" -> 1 [] s = "Closed" -> 2

\* C1: under every interleaving of close() with the reader task's handling of
\* frames, the connection state only moves forward along Open -> CloseSent ->
\* Closed: no step takes it from Closed to CloseSent or Open, or from CloseSent
\* to Open.
C1_StateMonotonic == [][Rank(state') >= Rank(state)]_vars

\* close() has moved the state to CloseSent while the reader task was handling
\* a peer Close that it had decoded in state Open.
C1_Witness ==
    /\ state = "CloseSent"
    /\ hstate = "Open"
    /\ rpc = "panic"
    /\ res.op = "close"

\* C2: send called while the state is CloseSent or Closed returns
\* InvalidConnectionState and writes nothing; called while the state is Open it
\* writes exactly one frame and returns Ok. (A send that began while the
\* reader was still handling the peer's Close, and found the writer shut down,
\* is not held against the claim.)
C2_SendByState ==
    (res.op = "send" /\ res.r # "pending") =>
        IF res.pre = "Open"
        THEN \/ res.r = "Ok" /\ res.wrote = 1
             \/ ~res.late /\ writerShut
        ELSE res.r = "InvalidConnectionState" /\ res.wrote = 0

\* The Close frame that close() writes (a peer's Close echoed back carries the
\* peer's payload).
IsOwnClose(f) == f = connection_close

\* C3: close() requires Open and is atomic: the state is Open in the step that
\* sets it to CloseSent; a close() that succeeds has written exactly one Close
\* frame; no step of close() shuts the writer down; a close() that found the
\* state not Open returned InvalidConnectionState, wrote nothing and left the
\* state as it was.
C3_CloseAtomic ==
    /\ [][(opc = "close_set" /\ opc' = "close_write") =>
              (state = "Open" /\ state' = "CloseSent")]_vars
    /\ [][(opc \in {"close_set", "close_write"} /\ opc' # opc) =>
              writerShut' = writerShut]_vars
    /\ []((res.op = "close" /\ res.r = "Ok") =>
              (res.wrote = 1 /\ state # "Open"
               /\ Len(SelectSeq(wire, IsOwnClose)) = 1))
    /\ []((res.op = "close" /\ res.pre # "Open") =>
              (res.r = "InvalidConnectionState" /\ res.wrote = 0
               /\ state = res.pre))

\* close() has succeeded while the reader task was running: the state is
\* CloseSent, one Close frame is on the wire and the writer is not shut down.
C3_Witness ==
    /\ res.op = "close"
    /\ res.r = "Ok"
    /\ state = "CloseSent"
    /\ rpc = "read"
    /\ received # << >>
    /\ ~writerShut

\* A peer's Close frame written back to it.
IsEcho(f) == f.opcode = "ConnectionClose" /\ ~IsOwnClose(f)

\* C4: when the reader decodes a ConnectionClose while the state is Open, one
\* Close is echoed, the writer is shut down and the state eventually becomes
\* Closed.
C4_PeerCloseWhileOpen ==
    (rpc = "h_echo" /\ hstate = "Open") ~>
        (state = "Closed" /\ writerShut /\ Len(SelectSeq(wire, IsEcho)) = 1)

\* C5: after a local close() (state CloseSent), when the reader decodes the
\* peer's ConnectionClose it shuts the writer down and the state eventually
\* becomes Closed.
C5_PeerCloseAfterClose ==
    (rpc = "h_echo" /\ hstate = "CloseSent") ~>
        (state = "Closed" /\ writerShut /\ SelectSeq(wire, IsEcho) = << >>)

IsPing(f) == f.opcode = "Ping"

IsPong(f) == f.opcode = "Pong"

\* C6: for every Ping the reader has decoded and handled, exactly one Pong is
\* on the wire, and it carries the payload of that Ping.
C6_PongEchoesPing ==
    rpc # "h_pong" =>
        LET pings == SelectSeq(received, IsPing)
            pongs == SelectSeq(wire, IsPong)
        IN /\ Len(pongs) = Len(pings)
           /\ \A i \in 1..Len(pings) : pongs[i].data = pings[i].data

\* The application messages of a frame sequence, as RFC 6455 reassembles them:
\* control frames are skipped, a final frame completes the message in progress.
RECURSIVE Reassemble(_, _)
Reassemble(frames, acc) ==
    IF frames = << >> THEN << >>
    ELSE LET f == Head(frames)
         IN IF f.opcode \in {"Ping", "Pong", "ConnectionClose"}
            THEN Reassemble(Tail(frames), acc)
            ELSE IF ~f.fin
            THEN Reassemble(Tail(frames), Append(acc, f))
            ELSE IF acc = << >>
            THEN << [type |-> f.opcode, data |-> f.data] >>
                     \o Reassemble(Tail(frames), << >>)
            ELSE << [type |-> acc[1].opcode, data |-> Flatten(Append(acc, f))] >>
                     \o Reassemble(Tail(frames), << >>)

\* C7: with control frames interleaved with application frames, also between
\* the fragments of a message, the message iterator yields exactly the
\* application messages, each once and in arrival order.
C7_ControlTransparent == yielded = Reassemble(received, << >>)

\* Index of the first frame of the run of non-final frames that ends before i.
RECURSIVE StartOfRun(_, _)
StartOfRun(frames, i) ==
    IF i > 1 /\ ~frames[i - 1].fin THEN StartOfRun(frames, i - 1) ELSE i

\* C8: a message split into n >= 1 non-final frames and one final frame, with
\* no other frame between them, is yielded as one frame with fin set, the
\* opcode of the first fragment and the concatenation of the payloads; and
\* nothing is yielded on a frame that is not final.
C8_FragmentsReassembled ==
    LET n == Len(received)
    IN /\ rpc = "zip" => received[n].fin
       /\ (rpc = "zip" /\ n >= 2 /\ ~received[n - 1].fin
               /\ received[n].opcode = "Continuation") =>
           LET m == SubSeq(received, StartOfRun(received, n), n)
           IN /\ cur.fin
              /\ cur.opcode = m[1].opcode
              /\ cur.data = Flatten(m)

\* C9: the fragment accumulator is empty after every frame the iterator yields.
C9_AccumulatorCleared == rpc \in {"zip", "callback"} => fragmented_seq = << >>

\* C10: after stop() the reader task eventually terminates even if the peer
\* sends no further frame and keeps the transport open, and the callback is
\* invoked for at most one further message.
C10_StopTerminates ==
    /\ \A n \in 0..MaxFrames :
          (stop = "ok" /\ rpc = "read" /\ inbound = << >> /\ sent = n /\ ~peerEof)
              ~> (Terminated \/ sent # n \/ peerEof)
    /\ [](afterStop <= 1)

\* The fields of a frame that a round trip is to preserve.
SameFrame(a, b) ==
    /\ a.fin = b.fin
    /\ a.rsv1 = b.rsv1
    /\ a.rsv2 = b.rsv2
    /\ a.rsv3 = b.rsv3
    /\ a.opcode = b.opcode
    /\ a.application_data = b.application_data

\* C11: a read timeout never loses data: whatever pieces the bytes of the
\* frames arrive in and wherever the timeouts fall, the frames the iterator has
\* decoded are the frames that were sent, in order, and the iterator has not
\* ended while the transport is open.
C11_TimeoutLosesNothing ==
    /\ ~iterNone
    /\ Len(out) <= Len(encoded)
    /\ \A i \in 1..Len(out) : i <= Len(encoded) => SameFrame(out[i], encoded[i])

\* C12: the bytes of each frame are contiguous on the wire: a byte that is not
\* the first of its frame follows the byte before it of the same frame.
C12_FramesContiguous ==
    \A i \in 1..Len(tcp) :
        tcp[i].at > 1 =>
            /\ i > 1
            /\ tcp[i - 1].by = tcp[i].by
            /\ tcp[i - 1].at = tcp[i].at - 1

\* C15: a reader thread blocked in a transport read, or timing out on it again
\* and again, never prevents a writer from completing a write: every write_all
\* the owner or a Sender has entered eventually returns, whether or not the
\* reader's read ever does.
C15_ReaderNeverBlocksWriter ==
    \A t \in {"owner", "sender"} : (wr[t].pc = "write") ~> (wr[t].pc = "done")

\* The reader task is inside a read that has returned no frame, holding the
\* reader half's Mutex, and the owner and the Sender have written their frames.
C15_Witness ==
    /\ rdpc = "in_read"
    /\ mutexes[split.reader] = "reader"
    /\ peerPings = MaxPings
    /\ wr["owner"].pc = "done"
    /\ wr["sender"].pc = "done"

\* C13: once the reader has echoed a peer-initiated Close (decoded while the
\* state was Open), the message iterator eventually returns None: the reader
\* task runs to its end.
C13_NoneAfterPeerClose ==
    (rpc = "h_shutdown" /\ hstate = "Open") ~> (rpc = "done")

\* C14: Sender::send never consults the connection state: in every state it
\* attempts the write, and its result depends on the transport alone: the
\* frame goes on the wire and the result is Ok unless the socket has been shut
\* down for writing.
C14_SenderIgnoresState ==
    [][ssends' # ssends =>
          IF writerShut
          THEN wire' = wire /\ sres'.r = "Err"
          ELSE /\ wire' = Append(wire, FrameFromMessage(SenderMessage))
               /\ sres'.r = "Ok"]_vars

\* close() has sent its Close frame and the state is CloseSent; a Sender has
\* then put a data frame on the wire, right behind the Close.
C14_Witness ==
    /\ state = "CloseSent"
    /\ sres.r = "Ok"
    /\ sres.pre = "CloseSent"
    /\ Len(wire) >= 2
    /\ wire[Len(wire) - 1] = connection_close
    /\ wire[Len(wire)] = FrameFromMessage(SenderMessage)

\* C20: every frame the library has written has the mask bit clear and carries
\* no masking key, whatever the peer sent.
C20_NeverMasked ==
    \A i \in 1..Len(wire) :
        LET b == to_bytes(FrameOf(wire[i]))
        IN /\ b[2] < 128
           /\ Len(b) = 2 + Len(wire[i].data)

\* C16: frame round trip: for every frame with a defined opcode and every
\* payload length, Frame::read applied to the bytes of to_bytes returns a frame
\* with the same fin, rsv bits, opcode and application_data.
C16_RoundTrip ==
    /\ out # << >> => SameFrame(out[1], encoded[1])
    /\ iterNone => out # << >>

\* C17: length encoding in to_bytes: the low 7 bits of the second byte are the
\* payload length up to 125, 126 up to 65535 and 127 above; they are followed
\* by no length bytes, by exactly 2 big-endian length bytes, or by exactly 8.
C17_LengthEncoding ==
    \A i \in 1..Len(encoded) :
        LET f == encoded[i]
            n == Len(f.application_data)
            b == to_bytes(f)
            ext == Len(b) - 2 - Len(f.masking_key) - n
        IN /\ b[2] % 128 = (IF n <= 125 THEN n
                            ELSE IF n <= 65535 THEN 126 ELSE 127)
           /\ ext = (IF n <= 125 THEN 0 ELSE IF n <= 65535 THEN 2 ELSE 8)
           /\ n > 125 => from_be_bytes(SubSeq(b, 3, 2 + ext)) = n

\* The field `name` of the header the other side sent has the value `value`.
HasField(h, name, value) ==
    \E i \in 1..Len(h.lines) :
        /\ h.lines[i].name = << name >>
        /\ h.lines[i].sep # << >>
        /\ h.lines[i].value = << value >>

\* The header the server sent is a valid WebSocket response.
ValidResponse(h) ==
    /\ h.leading = StatusLine101
    /\ h.terminated
    /\ HasField(h, "Connection", "Upgrade")
    /\ HasField(h, "Upgrade", "websocket")

\* C18: connect returns a connection only if the response header is a valid
\* WebSocket response; for any other response that it reads, connect fails
\* with InvalidRequestHeader and creates no connection.
C18_ConnectChecksResponse ==
    /\ hres = "Ok" => ValidResponse(header)
    /\ conn => hres = "Ok"
    /\ (hpc = "done" /\ hres # "UnknownError" /\ ~ValidResponse(header)) =>
           hres = "InvalidRequestHeader"

\* The header the client sent is a valid Upgrade request.
ValidRequest(h) ==
    /\ h.leading[1] = "GET"
    /\ h.terminated
    /\ HasField(h, "Connection", "Upgrade")
    /\ HasField(h, "Upgrade", "websocket")

\* C19: the connection iterator never yields WouldBlock; an accept error of
\* another kind is yielded as UnknownError; a request that cannot be parsed or
\* is not a valid Upgrade request is yielded as InvalidRequestHeader, never as
\* a PreAccept; auto_accept yields a connection only from an accept() that
\* succeeded.
C19_IteratorPolicy ==
    /\ hpc = "yielded" => hres # "WouldBlock"
    /\ (hpc = "yielded" /\ accepted = "Other") => hres = "UnknownError"
    /\ (hpc \in {"yielded", "done"} /\ accepted = "Ok"
            /\ ~ValidRequest(header)) => hres = "InvalidRequestHeader"
    /\ conn => hres = "Connection"

\* C21: for a header with a leading line and any list of name/value pairs,
\* also with values that contain ':', parsing the bytes that to_bytes produced
\* succeeds and returns the same leading line and, for every name, the same
\* value.
C21_HeaderRoundTrip ==
    parsed.r # "none" =>
        /\ parsed.r = "Ok"
        /\ parsed.leading_line = built.leading_line
        /\ \A name \in Names : get_value(parsed, name) = get_value(built, name)

\* C22: no thread does transport I/O (a write to the wire, a shutdown of the
\* writer) while it holds a guard of the connection-state lock: a step of the
\* reader task, or of the owner's send or close, that writes or shuts down is
\* taken with no state guard in that thread's hands.
C22_NoIoUnderStateLock ==
    [][(wire' # wire \/ writerShut' # writerShut) =>
           /\ rpc' # rpc => "reader" \notin readGuards
           /\ opc' # opc => "owner" \notin readGuards]_vars

\* C23: Frame::read returns Eof, and the frame iterator None, only when the
\* underlying read found the end of the stream, never on a read timeout, at
\* whichever stage of the frame the read was; and a Frame::read that gives up
\* with WouldBlock (to be called again from the start of a frame) does so only
\* when the read timed out.
C23_EofOnlyAtEnd ==
    [][/\ iterNone' # iterNone => srcEof
       /\ (rd' = ReadStart /\ rd # ReadStart /\ out' = out) =>
              (~srcEof /\ sock = << >>)]_vars

\* C24: handling a ConnectionClose never blocks on the connection-state lock:
\* the handler's thread holds no state read guard when it asks for the write
\* guard, and its handling never ends blocked or in a panic of the lock.
C24_HandlerNeverSelfBlocks ==
    /\ rpc = "h_write" => "reader" \notin readGuards
    /\ rpc \notin {"deadlock", "panic"}

\* C25: every application message the reader task has decoded is passed to
\* the callback: the messages delivered are the messages yielded, but for the
\* one the task has in hand on its way to the callback.
C25_NoMessageDropped ==
    LET inHand == IF rpc \in {"zip", "callback"} THEN 1 ELSE 0
    IN delivered = SubSeq(yielded, 1, Len(yielded) - inHand)

\* An application data frame.
IsData(f) == f.opcode \in {"Text", "Binary", "Continuation"}

\* C26: no application data frame is on the wire after a Close frame of this
\* endpoint, whether close() wrote the Close or the reader task echoed it.
C26_NoDataAfterClose ==
    \A i \in 1..Len(wire) : \A j \in (i + 1)..Len(wire) :
        wire[i].opcode = "ConnectionClose" => ~IsData(wire[j])

\* C27: if the connection state is Closed the writer half has been shut down,
\* and a Close echo owed to the peer was written before the shutdown; a
\* handling whose echo fails leaves the state as it was.
C27_ClosedOnlyAfterShutdown ==
    /\ [](state = "Closed" => writerShut)
    /\ [][(state' = "Closed" /\ state # "Closed") =>
              /\ writerShut
              /\ hstate = "Open" => \E i \in 1..Len(wire) : wire[i] = cur]_vars
    /\ [][(rpc = "h_echo" /\ rpc' = "read") => state' = state]_vars

\* The reader task has set the state to Closed.
C27_ClosedReached == state = "Closed"
====
